---------------------------- MODULE Spec2Model ----------------------------
(***************************************************************************)
(* fddup: progressive duplicate-file detection.                            *)
(*                                                                         *)
(* The model follows src/src/possdupe.rs (the candidate), src/src/algo.rs  *)
(* (find_work, the batching pass) and src/src/fddup.rs (run_impl, the      *)
(* round orchestrator, and read_poss_dupe, the read task).                 *)
(*                                                                         *)
(* Paths are the naturals 1..MaxFiles, ordered as PathBuf::cmp orders      *)
(* them.  A file is its content, a sequence over Bytes.  SHA-256 is        *)
(* modelled by an injective map of byte sequences into the positive        *)
(* naturals; the all-zero initial snapshot is 0.                           *)
(***************************************************************************)
EXTENDS Naturals, Sequences, FiniteSets

VARIABLES
    pc,          \* position of run_impl: scan, outer, inner, reading, done,
                 \* failed (Err returned), panicked (unwrap/assert panic);
                 \* call / returned in the specification of find_work alone
    fs,          \* the file system: path -> content
    lines,       \* the input stream: the listed paths, in input order
    options,     \* cli::Options: num_threads, read_size
    poss_dupes,  \* Fddup::poss_dupes, the global pool
    w,           \* the current algo::Work (work, duplicates, uniques)
    tasks,       \* the read tasks spawned in this round, in spawn order
    results,     \* what find_work left in `results` at the last inner call
    output,      \* the lines written to the writer, in order
    uniques_log, \* the candidates handed to Stats::unique, in order
    duplicates_log, \* the candidates handed to Stats::duplicate, in order
    last_call    \* the arguments of the latest find_work call

vars == <<pc, fs, lines, options, poss_dupes, w, tasks, results, output,
          uniques_log, duplicates_log, last_call>>

---------------------------------------------------------------------------
(* Bounds of the model. *)

MaxFiles == 4      \* distinct paths in the file system
MaxLiveFiles == 3  \* the same, where the fair behaviours are examined
MaxSize == 2       \* longest file, in bytes
MaxPool == 6       \* longest pool handed to find_work on its own
MaxKey == 3        \* distinct keys in such a pool
MaxDesired == 3    \* largest budget handed to find_work on its own
MaxListed == 4     \* most entries handed to remove_duplicate_paths on its own
MaxListedPath == 3 \* distinct paths among such entries
MaxListedSize == 1 \* largest size among such entries
MaxBuffers == 2    \* largest file, in scratch buffers, where only the
                   \* length of a read is examined

Bytes == {0, 1}

\* cli::MAX_READ_BUFFER_SIZE, 512 * 1024: the length of BUFFER
MAX_READ_BUFFER_SIZE == 524288

\* usize::MAX, the budget of the inner find_work call: larger than any pool.
USIZE_MAX == 2147483647

NoSuchPath == 0    \* a listed path that symlink_metadata cannot stat
InvalidLine == 255 \* an input line that is not valid UTF-8 (the byte 0xFF)

---------------------------------------------------------------------------
(* Option<T> *)

None == << >>
Some(x) == <<x>>

(* u64::saturating_sub / usize::saturating_sub *)
saturating_sub(a, b) == IF a >= b THEN a - b ELSE 0

min(a, b) == IF a <= b THEN a ELSE b

Last(s) == s[Len(s)]
Front(s) == SubSeq(s, 1, Len(s) - 1)
Reverse(s) == [i \in 1..Len(s) |-> s[Len(s) + 1 - i]]
Range(s) == {s[i] : i \in 1..Len(s)}

---------------------------------------------------------------------------
(* possdupe.rs *)

\* Sha256 of the bytes fed so far (digest.clone().finalize()): the number
\* whose binary digits are 1 followed by the bytes.  Injective, never 0.
RECURSIVE Sha256(_)
Sha256(bytes) ==
    IF bytes = << >> THEN 1
    ELSE 2 * Sha256(Front(bytes)) + Last(bytes)

\* Key::new
KeyNew(len) == [len |-> len, digest_snapshot |-> 0]

\* PossDupe::new
PossDupeNew(path, file_len) ==
    [path |-> path, key |-> KeyNew(file_len), file_len |-> file_len,
     bytes_read |-> 0, file |-> None, digest |-> << >>]

\* Key::eq, were the digest snapshot left out of the comparison
KeyEq_len_only(a, b) == a.len = b.len

\* impl PartialEq for Key
KeyEq(a, b) == a.len = b.len /\ a.digest_snapshot = b.digest_snapshot

\* GetKey::key
key(pd) == pd.key

\* PossDupe::bytes_remaining
bytes_remaining(pd) == saturating_sub(pd.key.len, pd.bytes_read)

\* PossDupe::open: the handle is acquired once, at offset 0.
open(pd) == IF pd.file = None THEN [pd EXCEPT !.file = Some(0)] ELSE pd

\* update_digest, were the snapshot of the key not taken again
update_digest_stale_snapshot(pd, buffer) ==
    [pd EXCEPT !.digest = pd.digest \o buffer]

\* PossDupe::update_digest
update_digest(pd, buffer) ==
    LET fed == pd.digest \o buffer
    IN [pd EXCEPT !.digest = fed, !.key.digest_snapshot = Sha256(fed)]

---------------------------------------------------------------------------
(* algo.rs: find_work *)

\* line 45: does the key of the run in progress equal the item's?
last_key_matches(last_key, item) ==
    IF last_key = None THEN FALSE ELSE KeyEq(last_key[1], key(item))

\* stops, were the run in progress not looked at
stops_ignoring_run(remaining, lkm) == remaining = 0

\* line 50: the pass stops (and the item is pushed back)
stops(remaining, lkm) == remaining = 0 /\ ~lkm

\* either_matches, without the lookahead
either_matches_no_lookahead(lkm, rest, item) == lkm

\* lines 55-61: one element of lookahead into what is left of the pool
either_matches(lkm, rest, item) ==
    IF lkm THEN TRUE
    ELSE IF rest = << >> THEN FALSE
    ELSE KeyEq(key(Last(rest)), key(item))

\* classify, were a unique item dropped instead of kept
classify_dropping_unique(s, rest, item, em) ==
    IF em
    THEN IF bytes_remaining(item) = 0
         THEN [s EXCEPT !.possible = rest, !.last_key = Some(key(item)),
                        !.duplicates = Append(@, item)]
         ELSE [s EXCEPT !.possible = rest, !.last_key = Some(key(item)),
                        !.work = Append(@, item),
                        !.remaining = saturating_sub(@, 1)]
    ELSE [s EXCEPT !.possible = rest]

\* classify, were the budget never decremented
classify_free_work(s, rest, item, em) ==
    IF em
    THEN IF bytes_remaining(item) = 0
         THEN [s EXCEPT !.possible = rest, !.last_key = Some(key(item)),
                        !.duplicates = Append(@, item)]
         ELSE [s EXCEPT !.possible = rest, !.last_key = Some(key(item)),
                        !.work = Append(@, item)]
    ELSE [s EXCEPT !.possible = rest, !.uniques = Append(@, item)]

\* classify, were a duplicate to cost budget as a work item does
classify_paid_duplicates(s, rest, item, em) ==
    IF em
    THEN IF bytes_remaining(item) = 0
         THEN [s EXCEPT !.possible = rest, !.last_key = Some(key(item)),
                        !.duplicates = Append(@, item),
                        !.remaining = saturating_sub(@, 1)]
         ELSE [s EXCEPT !.possible = rest, !.last_key = Some(key(item)),
                        !.work = Append(@, item),
                        !.remaining = saturating_sub(@, 1)]
    ELSE [s EXCEPT !.possible = rest, !.uniques = Append(@, item)]

\* classify, were items inserted at the front of the lists
classify_prepending(s, rest, item, em) ==
    IF em
    THEN IF bytes_remaining(item) = 0
         THEN [s EXCEPT !.possible = rest, !.last_key = Some(key(item)),
                        !.duplicates = <<item>> \o @]
         ELSE [s EXCEPT !.possible = rest, !.last_key = Some(key(item)),
                        !.work = <<item>> \o @,
                        !.remaining = saturating_sub(@, 1)]
    ELSE [s EXCEPT !.possible = rest, !.uniques = <<item>> \o @]

\* classify, were a unique item to cost budget as a work item does
classify_paid_uniques(s, rest, item, em) ==
    IF em
    THEN IF bytes_remaining(item) = 0
         THEN [s EXCEPT !.possible = rest, !.last_key = Some(key(item)),
                        !.duplicates = Append(@, item)]
         ELSE [s EXCEPT !.possible = rest, !.last_key = Some(key(item)),
                        !.work = Append(@, item),
                        !.remaining = saturating_sub(@, 1)]
    ELSE [s EXCEPT !.possible = rest, !.uniques = Append(@, item),
                   !.remaining = saturating_sub(@, 1)]

\* classify, were bytes_remaining not looked at
classify_unread_duplicates(s, rest, item, em) ==
    IF em
    THEN [s EXCEPT !.possible = rest, !.last_key = Some(key(item)),
                   !.duplicates = Append(@, item)]
    ELSE [s EXCEPT !.possible = rest, !.uniques = Append(@, item)]

\* lines 63-74: the item is classified; the budget pays for work only
classify(s, rest, item, em) ==
    IF em
    THEN IF bytes_remaining(item) = 0
         THEN [s EXCEPT !.possible = rest, !.last_key = Some(key(item)),
                        !.duplicates = Append(@, item)]
         ELSE [s EXCEPT !.possible = rest, !.last_key = Some(key(item)),
                        !.work = Append(@, item),
                        !.remaining = saturating_sub(@, 1)]
    ELSE [s EXCEPT !.possible = rest, !.uniques = Append(@, item)]

\* lines 44-75: the while-let loop, one pop per unfolding.  The state after
\* the pop is bound as a value before the loop goes on.
RECURSIVE find_work_loop(_)
find_work_loop(s) ==
    IF s.possible = << >> THEN s
    ELSE LET item == Last(s.possible)
             rest == Front(s.possible)
             lkm  == last_key_matches(s.last_key, item)
         IN IF stops(s.remaining, lkm) THEN s
            ELSE CHOOSE r \in
                     {find_work_loop(next) :
                         next \in {classify(s, rest, item,
                                            either_matches(lkm, rest, item))}} :
                     TRUE

\* find_work: .possible is the pool as the call leaves it
find_work(possible, desired) ==
    find_work_loop([possible |-> possible, last_key |-> None,
                    remaining |-> desired, work |-> << >>,
                    duplicates |-> << >>, uniques |-> << >>])

Work(r) == [work |-> r.work, duplicates |-> r.duplicates, uniques |-> r.uniques]
EmptyWork == [work |-> << >>, duplicates |-> << >>, uniques |-> << >>]

---------------------------------------------------------------------------
(* fddup.rs: the helpers of run_impl *)

PathLess(a, b) == a.path < b.path
PathEq(a, b) == a.path = b.path

\* the comparator of sort_poss_dupes: len, then digest_snapshot
KeyLess(a, b) ==
    \/ a.key.len < b.key.len
    \/ (a.key.len = b.key.len /\ a.key.digest_snapshot < b.key.digest_snapshot)

\* slice::sort_by is stable: an element goes after every element that
\* compares less and after every earlier element that compares equal.
SortByPath(s) ==
    LET n == Len(s)
        rank(i) == Cardinality({j \in 1..n :
                       \/ PathLess(s[j], s[i])
                       \/ (~PathLess(s[i], s[j]) /\ j < i)}) + 1
    IN [k \in 1..n |-> s[CHOOSE i \in 1..n : rank(i) = k]]

\* Vec::dedup_by(|a, b| a.path.eq(&b.path)): an element whose path equals
\* that of the element kept before it is removed.
RECURSIVE DedupByPath(_, _)
DedupByPath(s, kept) ==
    IF s = << >> THEN kept
    ELSE IF kept # << >> /\ PathEq(Head(s), Last(kept))
         THEN DedupByPath(Tail(s), kept)
         ELSE DedupByPath(Tail(s), Append(kept, Head(s)))

\* stat_files, when every listed path can be stat'ed
stat_files(ls) == [i \in 1..Len(ls) |-> PossDupeNew(ls[i], Len(fs[ls[i]]))]

\* remove_duplicate_paths, without the dedup_by
remove_duplicate_paths_sort_only(pds) == SortByPath(pds)

\* remove_duplicate_paths, were the last entry of a path the one kept
remove_duplicate_paths_keeping_last(pds) ==
    DedupByPath(SortByPath(Reverse(pds)), << >>)

\* lines 53-56: a stable sort by path, then dedup_by on the path
remove_duplicate_paths(pds) == DedupByPath(SortByPath(pds), << >>)

\* sort_poss_dupes, were the length the whole sort key
sort_poss_dupes_by_len(pds) ==
    LET n == Len(pds)
        rank(i) == Cardinality({j \in 1..n :
                       \/ pds[j].key.len < pds[i].key.len
                       \/ (pds[j].key.len = pds[i].key.len /\ j < i)}) + 1
    IN [k \in 1..n |-> pds[CHOOSE i \in 1..n : rank(i) = k]]

\* lines 59-66: a stable sort by length, then by digest snapshot
sort_poss_dupes(pds) ==
    LET n == Len(pds)
        rank(i) == Cardinality({j \in 1..n :
                       \/ KeyLess(pds[j], pds[i])
                       \/ (~KeyLess(pds[i], pds[j]) /\ j < i)}) + 1
    IN [k \in 1..n |-> pds[CHOOSE i \in 1..n : rank(i) = k]]

---------------------------------------------------------------------------
(* fddup.rs: read_poss_dupe, one read task *)

\* to_read, were bytes_read taken for bytes_remaining
to_read_of_bytes_read(pd, read_size) == min(read_size, pd.bytes_read)

\* line 183: the length requested of the read
to_read(pd, read_size) == min(read_size, bytes_remaining(pd))

\* read_poss_dupe, were bytes_read left as it was
read_poss_dupe_not_counting(pd, read_size) ==
    LET opened == open(pd)
        n      == to_read(opened, read_size)
        pos    == opened.file[1]
        buffer == SubSeq(fs[opened.path], pos + 1, pos + n)
        bytes_read == Len(buffer)
    IN update_digest([opened EXCEPT !.file = Some(pos + bytes_read)], buffer)

\* lines 179-192, when open and read succeed and the read is full: the
\* file's next to_read bytes are read at its offset and fed to the digest.
read_poss_dupe(pd, read_size) ==
    LET opened == open(pd)
        n      == to_read(opened, read_size)
        pos    == opened.file[1]
        buffer == SubSeq(fs[opened.path], pos + 1, pos + n)
        bytes_read == Len(buffer)
    IN update_digest([opened EXCEPT !.file = Some(pos + bytes_read),
                                    !.bytes_read = @ + bytes_read],
                     buffer)

\* lines 117-130: an output line; the digest is written in hex, the size
\* only with --show-size
Line(pd) ==
    [digest |-> pd.key.digest_snapshot, size |-> pd.file_len, path |-> pd.path]

\* tokio::spawn, line 139
Spawn(pd) == [pd |-> pd, state |-> "spawned"]

---------------------------------------------------------------------------
(* The state before run_impl starts. *)

Contents == UNION {[1..n -> Bytes] : n \in 0..MaxSize}

\* The listed paths: every file of the file system, possibly one of them
\* twice, possibly a path that does not exist or a line that is not text.
LinesFor(n) ==
    LET all == [i \in 1..n |-> n + 1 - i]
    IN {all} \cup {Append(all, p) : p \in 1..n}
             \cup {Append(all, NoSuchPath), Append(all, InvalidLine)}

NoCall == [possible |-> << >>, desired |-> 0, site |-> "none"]

\* File systems, one for each multiset of contents: find_work and run_impl
\* read a path only to tell candidates apart and to break ties between
\* equal keys, so a file system and its images under renaming of the
\* paths behave alike.  The larger content gets the smaller path.
FileSystems(n) ==
    {f \in [1..n -> Contents] :
        \A i \in 1..n, j \in 1..n :
            i < j => \/ Len(f[i]) > Len(f[j])
                     \/ (Len(f[i]) = Len(f[j]) /\ Sha256(f[i]) >= Sha256(f[j]))}

\* Fddup::new and the world around it, with at most max_files files
InitUpTo(max_files) ==
    /\ pc = "scan"
    /\ \E n \in 0..max_files :
          /\ fs \in FileSystems(n)
          /\ lines \in LinesFor(n)
    /\ options \in [num_threads : 0..max_files, read_size : 0..MaxSize]
    /\ poss_dupes = << >>
    /\ w = EmptyWork
    /\ tasks = << >>
    /\ results = << >>
    /\ output = << >>
    /\ uniques_log = << >>
    /\ duplicates_log = << >>
    /\ last_call = NoCall

Init == InitUpTo(MaxFiles)
InitLive == InitUpTo(MaxLiveFiles)

---------------------------------------------------------------------------
(* fddup.rs: run_impl *)

\* lines 39-41: the line is not text, or its path cannot be stat'ed
Unscannable(line) == line \in {NoSuchPath, InvalidLine}

\* lines 95-97: stat_files, remove_duplicate_paths, sort_poss_dupes
Scan ==
    /\ pc = "scan"
    /\ \A i \in 1..Len(lines) : ~Unscannable(lines[i])
    /\ \E stated \in {stat_files(lines)} :
       \E deduped \in {remove_duplicate_paths(stated)} :
          poss_dupes' = sort_poss_dupes(deduped)
    /\ lines' = << >>
    /\ pc' = "outer"
    /\ UNCHANGED <<fs, options, w, tasks, results, output,
                   uniques_log, duplicates_log, last_call>>

\* ScanFail, were a line that cannot be scanned skipped
ScanSkippingUnscannable ==
    /\ pc = "scan"
    /\ \E i \in 1..Len(lines) : Unscannable(lines[i])
    /\ \E stated \in {stat_files(SelectSeq(lines, LAMBDA l : ~Unscannable(l)))} :
       \E deduped \in {remove_duplicate_paths(stated)} :
          poss_dupes' = sort_poss_dupes(deduped)
    /\ lines' = << >>
    /\ pc' = "outer"
    /\ UNCHANGED <<fs, options, w, tasks, results, output,
                   uniques_log, duplicates_log, last_call>>

\* line 95: stat_files returns the error of the line or of symlink_metadata,
\* and `?` returns it from run_impl
ScanFail ==
    /\ pc = "scan"
    /\ \E i \in 1..Len(lines) : Unscannable(lines[i])
    /\ pc' = "failed"
    /\ UNCHANGED <<fs, lines, options, poss_dupes, w, tasks, results, output,
                   uniques_log, duplicates_log, last_call>>

\* lines 100-104: the pool is not empty, a batch is taken from it
OuterFindWork ==
    /\ pc = "outer"
    /\ poss_dupes # << >>
    /\ \E r \in {find_work(poss_dupes, options.num_threads)} :
          /\ w' = Work(r)
          /\ poss_dupes' = r.possible
    /\ last_call' = [possible |-> poss_dupes,
                     desired |-> options.num_threads, site |-> "outer"]
    /\ pc' = "inner"
    /\ UNCHANGED <<fs, lines, options, tasks, results, output, uniques_log, duplicates_log>>

\* lines 100, 162-166: the pool is empty, the run ends
OuterExit ==
    /\ pc = "outer"
    /\ poss_dupes = << >>
    /\ pc' = "done"
    /\ UNCHANGED <<fs, lines, options, poss_dupes, w, tasks, results, output,
                   uniques_log, duplicates_log, last_call>>

\* line 108: the sub-batch is empty, back to the outer loop
InnerExit ==
    /\ pc = "inner"
    /\ w.work = << >> /\ w.duplicates = << >> /\ w.uniques = << >>
    /\ pc' = "outer"
    /\ UNCHANGED <<fs, lines, options, poss_dupes, w, tasks, results, output,
                   uniques_log, duplicates_log, last_call>>

\* lines 108-141: uniques go to the statistics, duplicates to the
\* statistics and the writer, and one read task is spawned per work item
EmitAndSpawn ==
    /\ pc = "inner"
    /\ ~(w.work = << >> /\ w.duplicates = << >> /\ w.uniques = << >>)
    /\ uniques_log' = uniques_log \o w.uniques
    /\ duplicates_log' = duplicates_log \o w.duplicates
    /\ output' = output \o [i \in 1..Len(w.duplicates) |-> Line(w.duplicates[i])]
    /\ tasks' = [i \in 1..Len(w.work) |-> Spawn(w.work[i])]
    /\ w' = EmptyWork
    /\ pc' = "reading"
    /\ UNCHANGED <<fs, lines, options, poss_dupes, results, last_call>>

\* TaskRead, were a task that has completed run once more
TaskReadAgain(i) ==
    /\ pc = "reading"
    /\ tasks[i].state \in {"spawned", "ok"}
    /\ \E pd \in {read_poss_dupe(tasks[i].pd, options.read_size)} :
          tasks' = [tasks EXCEPT ![i] = [pd |-> pd, state |-> "ok"]]
    /\ UNCHANGED <<pc, fs, lines, options, poss_dupes, w, results, output,
                   uniques_log, duplicates_log, last_call>>

\* a spawned task runs read_poss_dupe to its Ok(poss_dupe)
TaskRead(i) ==
    /\ pc = "reading"
    /\ tasks[i].state = "spawned"
    /\ \E pd \in {read_poss_dupe(tasks[i].pd, options.read_size)} :
          tasks' = [tasks EXCEPT ![i] = [pd |-> pd, state |-> "ok"]]
    /\ UNCHANGED <<pc, fs, lines, options, poss_dupes, w, results, output,
                   uniques_log, duplicates_log, last_call>>

\* line 179: the file cannot be opened, the task returns Err
TaskOpenFail(i) ==
    /\ pc = "reading"
    /\ tasks[i].state = "spawned"
    /\ tasks[i].pd.file = None
    /\ tasks' = [tasks EXCEPT ![i].state = "err"]
    /\ UNCHANGED <<pc, fs, lines, options, poss_dupes, w, results, output,
                   uniques_log, duplicates_log, last_call>>

\* lines 186-187: the read returns fewer bytes than asked for, the
\* assertion panics in the task
TaskShortRead(i) ==
    /\ pc = "reading"
    /\ tasks[i].state = "spawned"
    /\ to_read(tasks[i].pd, options.read_size) > 0
    /\ tasks' = [tasks EXCEPT ![i].pd = open(@), ![i].state = "panic"]
    /\ UNCHANGED <<pc, fs, lines, options, poss_dupes, w, results, output,
                   uniques_log, duplicates_log, last_call>>

\* JoinAndFindWork, were the results pushed in the order the tasks happen
\* to complete in, which may be any order
JoinInCompletionOrder ==
    /\ pc = "reading"
    /\ \A i \in 1..Len(tasks) : tasks[i].state = "ok"
    /\ \E order \in {f \in [1..Len(tasks) -> 1..Len(tasks)] :
                         \A i \in 1..Len(tasks), j \in 1..Len(tasks) :
                             f[i] = f[j] => i = j} :
       \E sorted \in {sort_poss_dupes([i \in 1..Len(tasks) |->
                                           tasks[order[i]].pd])} :
       \E r \in {find_work(sorted, USIZE_MAX)} :
          /\ w' = Work(r)
          /\ results' = r.possible
          /\ last_call' = [possible |-> sorted, desired |-> USIZE_MAX,
                           site |-> "inner"]
    /\ tasks' = << >>
    /\ pc' = "inner"
    /\ UNCHANGED <<fs, lines, options, poss_dupes, output,
                   uniques_log, duplicates_log>>

\* JoinAndFindWork, were the inner call given the budget of the outer one
JoinAndFindWorkOnBudget ==
    /\ pc = "reading"
    /\ \A i \in 1..Len(tasks) : tasks[i].state = "ok"
    /\ \E joined \in {[i \in 1..Len(tasks) |-> tasks[i].pd]} :
       \E sorted \in {sort_poss_dupes(joined)} :
       \E r \in {find_work(sorted, options.num_threads)} :
          /\ w' = Work(r)
          /\ results' = r.possible
          /\ last_call' = [possible |-> sorted, desired |-> options.num_threads,
                           site |-> "inner"]
    /\ tasks' = << >>
    /\ pc' = "inner"
    /\ UNCHANGED <<fs, lines, options, poss_dupes, output,
                   uniques_log, duplicates_log>>

\* JoinAndFindWork, were the tasks that have not completed left behind
JoinCompletedOnly ==
    /\ pc = "reading"
    /\ \A i \in 1..Len(tasks) : tasks[i].state \in {"spawned", "ok"}
    /\ \E done \in {SelectSeq(tasks, LAMBDA t : t.state = "ok")} :
       \E sorted \in {sort_poss_dupes([i \in 1..Len(done) |-> done[i].pd])} :
       \E r \in {find_work(sorted, USIZE_MAX)} :
          /\ w' = Work(r)
          /\ results' = r.possible
          /\ last_call' = [possible |-> sorted, desired |-> USIZE_MAX,
                           site |-> "inner"]
    /\ tasks' = << >>
    /\ pc' = "inner"
    /\ UNCHANGED <<fs, lines, options, poss_dupes, output,
                   uniques_log, duplicates_log>>

\* lines 143-158: every task is joined in spawn order, the results are
\* sorted and batched again with no budget limit
JoinAndFindWork ==
    /\ pc = "reading"
    /\ \A i \in 1..Len(tasks) : tasks[i].state = "ok"
    /\ \E joined \in {[i \in 1..Len(tasks) |-> tasks[i].pd]} :
       \E sorted \in {sort_poss_dupes(joined)} :
       \E r \in {find_work(sorted, USIZE_MAX)} :
          /\ w' = Work(r)
          /\ results' = r.possible
          /\ last_call' = [possible |-> sorted, desired |-> USIZE_MAX,
                           site |-> "inner"]
    /\ tasks' = << >>
    /\ pc' = "inner"
    /\ UNCHANGED <<fs, lines, options, poss_dupes, output, uniques_log, duplicates_log>>

\* JoinPanic, were a failed task set aside and the round carried on with
\* the candidates of the others
JoinDroppingFailed ==
    /\ pc = "reading"
    /\ \E i \in 1..Len(tasks) : tasks[i].state \in {"err", "panic"}
    /\ \A i \in 1..Len(tasks) : tasks[i].state # "spawned"
    /\ \E ok \in {SelectSeq(tasks, LAMBDA t : t.state = "ok")} :
       \E sorted \in {sort_poss_dupes([i \in 1..Len(ok) |-> ok[i].pd])} :
       \E r \in {find_work(sorted, USIZE_MAX)} :
          /\ w' = Work(r)
          /\ results' = r.possible
          /\ last_call' = [possible |-> sorted, desired |-> USIZE_MAX,
                           site |-> "inner"]
    /\ tasks' = << >>
    /\ pc' = "inner"
    /\ UNCHANGED <<fs, lines, options, poss_dupes, output,
                   uniques_log, duplicates_log>>

\* line 147: the join reaches a task that failed, and unwrap panics
JoinPanic ==
    /\ pc = "reading"
    /\ \E i \in 1..Len(tasks) :
          /\ tasks[i].state \in {"err", "panic"}
          /\ \A j \in 1..(i - 1) : tasks[j].state = "ok"
    /\ pc' = "panicked"
    /\ UNCHANGED <<fs, lines, options, poss_dupes, w, tasks, results, output,
                   uniques_log, duplicates_log, last_call>>

Next ==
    \/ Scan
    \/ ScanFail
    \/ OuterFindWork
    \/ OuterExit
    \/ InnerExit
    \/ EmitAndSpawn
    \/ \E i \in 1..Len(tasks) : TaskRead(i)
    \/ \E i \in 1..Len(tasks) : TaskOpenFail(i)
    \/ \E i \in 1..Len(tasks) : TaskShortRead(i)
    \/ JoinAndFindWork
    \/ JoinPanic

Spec == Init /\ [][Next]_vars

\* run_impl runs on while it has a step to take, and the runtime runs
\* every spawned task.
LiveSpec == InitLive /\ [][Next]_vars /\ WF_vars(Next)

---------------------------------------------------------------------------
(* Properties of a run. *)

Paths(s) == {s[i].path : i \in 1..Len(s)}
NoRepeat(s) == \A i \in 1..Len(s), j \in 1..Len(s) : s[i].path = s[j].path => i = j

Classified == uniques_log \o duplicates_log
TaskPds == [i \in 1..Len(tasks) |-> tasks[i].pd]
\* the candidates of the batch in hand: the sub-batch, the tasks, `results`
InBatch == w.work \o w.duplicates \o w.uniques \o TaskPds \o results
Scanned == DOMAIN fs
SameContent(p, q) == Len(fs[p]) = Len(fs[q]) /\ fs[p] = fs[q]
HasTwin(p) == \E q \in Scanned : q # p /\ SameContent(p, q)

\* C1: every candidate written out as a duplicate has no bytes remaining
\* when it is written, and another candidate, of another path, the same
\* size and the same content, is written out as a duplicate too.
C1_Soundness ==
    /\ Len(output) = Len(duplicates_log)
    /\ \A i \in 1..Len(output) :
          LET d == duplicates_log[i]
          IN /\ output[i].path = d.path
             /\ bytes_remaining(d) = 0
             /\ d.bytes_read = Len(fs[d.path])
             /\ \E j \in 1..Len(output) :
                   /\ output[j].path # d.path
                   /\ output[j].size = output[i].size
                   /\ SameContent(output[j].path, d.path)

\* duplicates were confirmed by reading them in two chunks
C1_Witness ==
    /\ pc = "done"
    /\ options.read_size = 1
    /\ \E i \in 1..Len(duplicates_log) : duplicates_log[i].bytes_read = 2

\* C2: a candidate that has the size and the content of another scanned
\* candidate is never classified unique and is classified duplicate by the
\* end of the run; a size is never split between the batch in hand and the
\* global pool.
C2_Completeness ==
    /\ \A i \in 1..Len(uniques_log) : ~HasTwin(uniques_log[i].path)
    /\ (pc = "done" => \A p \in Scanned : HasTwin(p) => p \in Paths(duplicates_log))
    /\ \A i \in 1..Len(poss_dupes), j \in 1..Len(InBatch) :
          poss_dupes[i].file_len # InBatch[j].file_len
    /\ (pc = "inner" /\ last_call.site = "outer" =>
           \A i \in 1..Len(poss_dupes), j \in 1..Len(last_call.possible) :
               poss_dupes[i].file_len = last_call.possible[j].file_len
                   => (j <= Len(poss_dupes) /\ poss_dupes[j] = last_call.possible[j]))

\* three copies were taken into one batch on a budget of one, and found
C2_Witness ==
    /\ pc = "done"
    /\ options.num_threads = 1
    /\ options.read_size = 1
    /\ Len(duplicates_log) = 3
    /\ duplicates_log[1].bytes_read = 2

RunEnded ==
    /\ pc = "done"
    /\ poss_dupes = << >>
    /\ w = EmptyWork
    /\ tasks = << >>
    /\ results = << >>
RunFailed == pc \in {"failed", "panicked"}

\* C3: with a concurrency limit and a chunk size of at least 1, a run in
\* which nothing fails reaches the end with the pool empty and no sub-batch
\* pending, and every inner loop comes back to the outer loop.
C3_Termination ==
    (options.num_threads >= 1 /\ options.read_size >= 1) =>
        /\ <>(RunEnded \/ RunFailed)
        /\ [](pc \in {"inner", "reading"} => <>(pc = "outer" \/ RunFailed))

\* a run ended after two outer batches and a file read in two chunks
C3_Witness ==
    /\ RunEnded
    /\ options.num_threads = 1
    /\ options.read_size = 1
    /\ Len(duplicates_log) >= 2
    /\ Len(uniques_log) >= 1
    /\ \E i \in 1..Len(Classified) : Classified[i].bytes_read = 2

\* C4: a candidate is classified at most once and is in no pool, work set
\* or result list once classified; while the run goes on every scanned path
\* is in exactly one of those places, and at the end of the run every
\* scanned path has been classified exactly once.
C4_ExactlyOnce ==
    /\ NoRepeat(Classified \o poss_dupes \o InBatch)
    /\ (pc \in {"outer", "inner", "reading", "done"} =>
           Paths(Classified \o poss_dupes \o InBatch) = Scanned)
    /\ (pc = "done" =>
           /\ Paths(Classified) = Scanned
           /\ Len(Classified) = Cardinality(Scanned))

C4_Witness ==
    /\ pc = "done"
    /\ Len(uniques_log) >= 1
    /\ Len(duplicates_log) >= 2
    /\ Len(Classified) = MaxFiles

---------------------------------------------------------------------------
(* find_work on its own: the call of line 104 on any pool sorted ascending *)
(* by key, with any budget.                                                *)

\* The k-th key in ascending order: (1, 0), (1, 1), (2, 0), (2, 1), ...
TestKey(k) == [len |-> (k + 1) \div 2, digest_snapshot |-> (k + 1) % 2]

\* A candidate with that key and with bytes to read still, or with none.
TestItem(path, k, unread) ==
    [PossDupeNew(path, TestKey(k).len) EXCEPT
        !.key = TestKey(k),
        !.bytes_read = IF unread THEN 0 ELSE TestKey(k).len]

SortedPools ==
    UNION {
        {[i \in 1..n |-> TestItem(i, ks[i], us[i])] :
            ks \in {f \in [1..n -> 1..MaxKey] :
                       \A i \in 1..n, j \in 1..n : i <= j => f[i] <= f[j]},
            us \in [1..n -> BOOLEAN]} :
        n \in 0..MaxPool}

InitFW ==
    /\ pc = "call"
    /\ poss_dupes \in SortedPools
    /\ options \in [num_threads : 0..MaxDesired, read_size : {1}]
    /\ fs = << >>
    /\ lines = << >>
    /\ w = EmptyWork
    /\ tasks = << >>
    /\ results = << >>
    /\ output = << >>
    /\ uniques_log = << >>
    /\ duplicates_log = << >>
    /\ last_call = NoCall

CallFindWork ==
    /\ pc = "call"
    /\ \E r \in {find_work(poss_dupes, options.num_threads)} :
          /\ w' = Work(r)
          /\ poss_dupes' = r.possible
    /\ last_call' = [possible |-> poss_dupes,
                     desired |-> options.num_threads, site |-> "outer"]
    /\ pc' = "returned"
    /\ UNCHANGED <<fs, lines, options, tasks, results, output, uniques_log, duplicates_log>>

NextFW == CallFindWork

SpecFW == InitFW /\ [][NextFW]_vars

---------------------------------------------------------------------------
(* remove_duplicate_paths on its own: the call of line 96 on any vector    *)
(* that stat_files can return, a path possibly listed several times and    *)
(* stat'ed with a size that changed in between.                            *)

ListedVectors ==
    UNION {[1..n -> {PossDupeNew(path, len) :
                        path \in 1..MaxListedPath, len \in 0..MaxListedSize}] :
           n \in 0..MaxListed}

InitRDP ==
    /\ pc = "stated"
    /\ poss_dupes \in ListedVectors
    /\ options = [num_threads |-> 1, read_size |-> 1]
    /\ fs = << >>
    /\ lines = << >>
    /\ w = EmptyWork
    /\ tasks = << >>
    /\ results = << >>
    /\ output = << >>
    /\ uniques_log = << >>
    /\ duplicates_log = << >>
    /\ last_call = NoCall

CallRemoveDuplicatePaths ==
    /\ pc = "stated"
    /\ poss_dupes' = remove_duplicate_paths(poss_dupes)
    /\ last_call' = [possible |-> poss_dupes, desired |-> 0, site |-> "dedup"]
    /\ pc' = "deduped"
    /\ UNCHANGED <<fs, lines, options, w, tasks, results, output,
                   uniques_log, duplicates_log>>

NextRDP == CallRemoveDuplicatePaths

SpecRDP == InitRDP /\ [][NextRDP]_vars

---------------------------------------------------------------------------
(* The slice of the scratch buffer that read_poss_dupe takes, on its own:  *)
(* one task about to read, for the chunk sizes that Options::parse lets    *)
(* through (any usize) and file sizes around the length of BUFFER.  Only   *)
(* lengths are followed here, not contents.                                *)

SizesAroundBuffer ==
    {0, 1} \cup UNION {{k * MAX_READ_BUFFER_SIZE - 1, k * MAX_READ_BUFFER_SIZE,
                        k * MAX_READ_BUFFER_SIZE + 1} : k \in 1..MaxBuffers}

ChunkSizes == SizesAroundBuffer \cup {USIZE_MAX}

\* a candidate of that size of which that much has been read
PartlyRead(len, so_far) ==
    [PossDupeNew(1, len) EXCEPT
        !.bytes_read = so_far,
        !.file = IF so_far = 0 THEN None ELSE Some(so_far)]

InitBuffer ==
    /\ pc = "reading"
    /\ options \in [num_threads : {1}, read_size : ChunkSizes]
    /\ \E len \in SizesAroundBuffer :
       \E so_far \in {b \in SizesAroundBuffer : b < len} :
          tasks = <<Spawn(PartlyRead(len, so_far))>>
    /\ fs = << >>
    /\ lines = << >>
    /\ poss_dupes = << >>
    /\ w = EmptyWork
    /\ results = << >>
    /\ output = << >>
    /\ uniques_log = << >>
    /\ duplicates_log = << >>
    /\ last_call = NoCall

\* lines 183-188: buffer[0..to_read] is within BUFFER, the read fills it
TaskReadInBuffer(i) ==
    /\ pc = "reading"
    /\ tasks[i].state = "spawned"
    /\ \E n \in {to_read(tasks[i].pd, options.read_size)} :
          /\ n <= MAX_READ_BUFFER_SIZE
          /\ tasks' = [tasks EXCEPT
                          ![i].pd.bytes_read = @ + n,
                          ![i].pd.file = Some(tasks[i].pd.bytes_read + n),
                          ![i].state = "ok"]
    /\ UNCHANGED <<pc, fs, lines, options, poss_dupes, w, results, output,
                   uniques_log, duplicates_log, last_call>>

\* line 186: buffer[0..to_read] with to_read past the end of BUFFER: the
\* slice index panics in the task
TaskSlicePanic(i) ==
    /\ pc = "reading"
    /\ tasks[i].state = "spawned"
    /\ to_read(tasks[i].pd, options.read_size) > MAX_READ_BUFFER_SIZE
    /\ tasks' = [tasks EXCEPT ![i].pd = open(@), ![i].state = "slice_panic"]
    /\ UNCHANGED <<pc, fs, lines, options, poss_dupes, w, results, output,
                   uniques_log, duplicates_log, last_call>>

NextBuffer ==
    \/ \E i \in 1..Len(tasks) : TaskReadInBuffer(i)
    \/ \E i \in 1..Len(tasks) : TaskSlicePanic(i)

SpecBuffer == InitBuffer /\ [][NextBuffer]_vars

---------------------------------------------------------------------------
(* Properties of one find_work call, stated on the state it returns to:    *)
(* last_call holds the pool and the budget it was given, poss_dupes what   *)
(* it left of the pool, w what it produced.                                *)

Returned == pc = "returned"
Orig == last_call.possible
Desired == last_call.desired
Consumed == w.work \o w.duplicates \o w.uniques

\* the place of an item in the pool the call was given
OrigIndex(x) == CHOOSE i \in 1..Len(Orig) : Orig[i].path = x.path

\* some other item of the pool has the key of x
HasPeer(x) ==
    \E i \in 1..Len(Orig) : Orig[i].path # x.path /\ KeyEq(key(Orig[i]), key(x))

\* C5: after a call on a sorted pool, work, duplicates, uniques and the
\* remaining pool hold each item of the original pool exactly once between
\* them, the remaining pool is a prefix of the original pool, and a call on
\* an empty pool returns three empty lists and an empty pool.
C5_Partition ==
    Returned =>
        /\ NoRepeat(Consumed \o poss_dupes)
        /\ Range(Consumed \o poss_dupes) = Range(Orig)
        /\ Len(Consumed) + Len(poss_dupes) = Len(Orig)
        /\ Len(poss_dupes) <= Len(Orig)
        /\ poss_dupes = SubSeq(Orig, 1, Len(poss_dupes))
        /\ (Orig = << >> => Consumed = << >> /\ poss_dupes = << >>)

C5_Witness ==
    /\ Returned
    /\ w.work # << >> /\ w.duplicates # << >> /\ w.uniques # << >>
    /\ poss_dupes # << >>

\* C6: after a call, no key occurs both among the consumed items and among
\* the items left in the pool, whatever the budget.
C6_RunNotSplit ==
    Returned =>
        \A i \in 1..Len(Consumed), j \in 1..Len(poss_dupes) :
            ~KeyEq(key(Consumed[i]), key(poss_dupes[j]))

\* a run longer than the budget was taken whole, with items left below it
C6_Witness ==
    /\ Returned
    /\ Desired >= 1
    /\ Len(w.work) > Desired
    /\ poss_dupes # << >>

\* C7: each consumed item is in uniques iff no other item of the original
\* pool has its key, in duplicates iff some other item has its key and it
\* has no bytes remaining, in work iff some other item has its key and it
\* has bytes remaining.
C7_Classification ==
    Returned =>
        \A i \in 1..Len(Consumed) :
            LET x == Consumed[i]
            IN /\ (x \in Range(w.uniques)) <=> ~HasPeer(x)
               /\ (x \in Range(w.duplicates)) <=>
                      (HasPeer(x) /\ bytes_remaining(x) = 0)
               /\ (x \in Range(w.work)) <=>
                      (HasPeer(x) /\ bytes_remaining(x) > 0)

C7_Witness ==
    /\ Returned
    /\ w.work # << >> /\ w.duplicates # << >> /\ w.uniques # << >>

\* C8: the work list is longer than the budget b only by items that have
\* the key of its b-th item, and it is empty when b = 0.
C8_WorkBound ==
    Returned =>
        /\ (Desired = 0 => w.work = << >>)
        /\ \A i \in 1..Len(w.work) :
               i > Desired =>
                   /\ Desired >= 1
                   /\ KeyEq(key(w.work[i]), key(w.work[Desired]))

\* two runs were taken for work, the second one past the budget
C8_Witness ==
    /\ Returned
    /\ Desired >= 2
    /\ Len(w.work) > Desired
    /\ ~KeyEq(key(w.work[1]), key(w.work[Desired]))

\* the items of the original pool with no bytes remaining that share their
\* key with another such item: the runs of finished candidates
InZeroRun(i) ==
    /\ bytes_remaining(Orig[i]) = 0
    /\ \E j \in 1..Len(Orig) :
          /\ j # i
          /\ KeyEq(key(Orig[j]), key(Orig[i]))
          /\ bytes_remaining(Orig[j]) = 0

\* C9 as stated: every run of two or more equal-key items with no bytes
\* remaining is moved into duplicates whole, whatever the budget, 0 included.
C9_Original ==
    Returned =>
        \A i \in 1..Len(Orig) : InZeroRun(i) => Orig[i] \in Range(w.duplicates)

\* C9, amended: every such run is moved into duplicates whole unless the
\* pass stopped above it with its budget used up by work items, and then the
\* whole run is still in the pool; duplicates use no budget; with budget 0
\* the call consumes nothing.
C9_DuplicatesDrained ==
    Returned =>
        /\ \A i \in 1..Len(Orig) :
               InZeroRun(i) =>
                   \/ Orig[i] \in Range(w.duplicates)
                   \/ /\ i <= Len(poss_dupes)
                      /\ poss_dupes[i] = Orig[i]
                      /\ Len(w.work) >= Desired
        /\ \A i \in 1..Len(Orig), j \in 1..Len(Orig) :
               (InZeroRun(i) /\ KeyEq(key(Orig[i]), key(Orig[j]))
                             /\ Orig[i] \in Range(w.duplicates))
                   => Orig[j] \in Range(Consumed)
        /\ (Desired = 0 => poss_dupes = Orig /\ Consumed = << >>)

\* one run of finished candidates was drained on a budget that work used
\* up, and another one was left in the pool
C9_Witness ==
    /\ Returned
    /\ Desired >= 1
    /\ Len(w.duplicates) >= 2
    /\ Len(w.work) >= Desired
    /\ \E i \in 1..Len(poss_dupes) : InZeroRun(i)

\* C10: each of work, duplicates and uniques lists its items in the order
\* they were popped: it is a subsequence of the reversed original pool, so
\* its keys never ascend.
PopOrder(s) ==
    \A i \in 1..Len(s), j \in 1..Len(s) :
        i < j => /\ OrigIndex(s[i]) > OrigIndex(s[j])
                 /\ ~KeyLess(s[i], s[j])

C10_OutputOrder ==
    Returned =>
        /\ Range(Consumed) \subseteq Range(Orig)
        /\ PopOrder(w.work) /\ PopOrder(w.duplicates) /\ PopOrder(w.uniques)

C10_Witness ==
    /\ Returned
    /\ \E i \in 1..Len(w.work) : KeyLess(w.work[i], w.work[1])
    /\ w.uniques # << >>

---------------------------------------------------------------------------
(* More properties of a run, stated with the pool and the budget that the  *)
(* latest find_work call of run_impl was given (last_call).                *)

\* the lines of the writer that name a path
LinesNaming(p) == {i \in 1..Len(output) : output[i].path = p}

\* C11: the writer holds one line for each candidate handed to
\* Stats::duplicate, with its digest snapshot, size and path, and no line
\* for a candidate handed to Stats::unique; the writer only grows, and only
\* by the lines of the duplicates of the latest batching pass, in the order
\* that pass popped them.
C11_OutputLines ==
    /\ [](/\ Len(output) = Len(duplicates_log)
          /\ \A i \in 1..Len(output) :
                /\ output[i].path = duplicates_log[i].path
                /\ output[i].digest = duplicates_log[i].key.digest_snapshot
                /\ output[i].size = duplicates_log[i].file_len
          /\ \A p \in Paths(duplicates_log) : Cardinality(LinesNaming(p)) = 1
          /\ \A p \in Paths(uniques_log) : LinesNaming(p) = {})
    /\ [][output' # output =>
             /\ pc = "inner"
             /\ PopOrder(w.duplicates)
             /\ Len(output') = Len(output) + Len(w.duplicates)
             /\ SubSeq(output', 1, Len(output)) = output
             /\ \A i \in 1..Len(w.duplicates) :
                    output'[Len(output) + i].path = w.duplicates[i].path]_vars

\* a run ended with the lines of two duplicates and none for a unique
C11_Witness ==
    /\ pc = "done"
    /\ Len(output) = 2
    /\ output[1].digest # 0
    /\ Len(uniques_log) = 1

\* a read task of this round could not open its file or read short
ReadFailed == \E i \in 1..Len(tasks) : tasks[i].state \in {"err", "panic"}

\* C12 as stated: when a read task fails the run aborts, and the failed
\* run has written no line for any duplicate.
C12_Original ==
    ReadFailed => /\ pc \in {"reading", "panicked"}
                  /\ output = << >>

\* C12, amended: from the failure on the run takes no batching pass, hands
\* no candidate to the statistics, writes no line and spawns no task; the
\* tasks spawned before it in the same round may still finish, and the run
\* stops for good at the join that reaches the failed task.  The lines
\* written for the duplicates of earlier rounds stay written.
C12_ReadFailureAborts ==
    /\ [](ReadFailed => /\ pc \in {"reading", "panicked"}
                         /\ w = EmptyWork)
    /\ [](pc = "panicked" => ReadFailed)
    /\ [][ReadFailed =>
             /\ ReadFailed'
             /\ pc' \in {"reading", "panicked"}
             /\ UNCHANGED <<poss_dupes, w, results, output, uniques_log,
                            duplicates_log, last_call>>
             /\ Len(tasks') = Len(tasks)
             /\ \A i \in 1..Len(tasks) :
                    /\ tasks'[i].pd.path = tasks[i].pd.path
                    /\ tasks[i].state # "spawned" => tasks'[i] = tasks[i]]_vars
    /\ [][pc = "panicked" => FALSE]_vars

\* a run stopped at a failed read after it had written two lines, with
\* the other task of the round finished
C12_Witness ==
    /\ pc = "panicked"
    /\ Len(output) >= 2
    /\ \E i \in 1..Len(tasks) : tasks[i].state = "panic"
    /\ \E i \in 1..Len(tasks) : tasks[i].state = "ok"

\* some line of the input cannot be scanned
ScanFails == \E i \in 1..Len(lines) : Unscannable(lines[i])

\* C13: when a listed path cannot be stat'ed or a line is not text, the
\* only step of the run is the one that ends it with the error: the pool
\* stays empty (no deduplication, no sort), find_work is never called, no
\* task is spawned, no candidate is classified and no line is written.
C13_ScanFailureFirst ==
    /\ [](ScanFails => /\ pc \in {"scan", "failed"}
                        /\ poss_dupes = << >>
                        /\ last_call = NoCall
                        /\ w = EmptyWork
                        /\ tasks = << >>
                        /\ results = << >>
                        /\ output = << >>
                        /\ Classified = << >>)
    /\ [](pc = "failed" => ScanFails)
    /\ [][ScanFails /\ pc = "scan" =>
             /\ pc' = "failed"
             /\ UNCHANGED <<fs, lines, options, poss_dupes, w, tasks, results,
                            output, uniques_log, duplicates_log, last_call>>]_vars
    /\ [][pc = "failed" => FALSE]_vars

\* the scan failed on the last line, after every file had been listed
C13_Witness ==
    /\ pc = "failed"
    /\ Len(lines) = MaxFiles + 1
    /\ Unscannable(lines[Len(lines)])
    /\ ~Unscannable(lines[1])

\* the tasks whose read has been dispatched and has not completed
InFlight == {i \in 1..Len(tasks) : tasks[i].state = "spawned"}

\* the tasks of the round whose file is not of the smallest size among them
AboveSmallest ==
    {i \in 1..Len(tasks) :
        \E j \in 1..Len(tasks) : tasks[j].pd.file_len < tasks[i].pd.file_len}

\* C14 as stated: the reads in flight never number more than num_threads.
C14_Original == Cardinality(InFlight) <= options.num_threads

\* C14, amended: the reads in flight are those of the work candidates of
\* the round; with num_threads = 0 there is none, and they number more
\* than num_threads only by files of the smallest size among them, the run
\* that the batching pass took whole past its budget: the files of the
\* other sizes number fewer than num_threads.
C14_InFlightBound ==
    /\ (pc \notin {"reading", "panicked"} => tasks = << >>)
    /\ (options.num_threads = 0 => tasks = << >>)
    /\ (Len(tasks) > options.num_threads =>
           Cardinality(AboveSmallest) < options.num_threads)
    /\ \A i \in 1..Len(tasks) :
          /\ i \in InFlight => bytes_remaining(tasks[i].pd) > 0
          /\ \E j \in 1..Len(tasks) :
                j # i /\ tasks[j].pd.file_len = tasks[i].pd.file_len

\* four reads in flight on a limit of three: two files of one size within
\* the budget, two of a smaller size taken with one unit of budget left
C14_Witness ==
    /\ options.num_threads = 3
    /\ Cardinality(InFlight) = 4
    /\ Cardinality(AboveSmallest) = 2

\* the candidate of a path as the latest batching pass was given it
AtLastCall(p) ==
    last_call.possible[CHOOSE i \in 1..Len(last_call.possible) :
                           last_call.possible[i].path = p]

\* another file of the size of p starts with the first n bytes of p
PrefixShared(p, n) ==
    \E q \in Scanned :
        /\ q # p
        /\ Len(fs[q]) = Len(fs[p])
        /\ SubSeq(fs[q], 1, n) = SubSeq(fs[p], 1, n)

SizeUnique(p) == \A q \in Scanned : q # p => Len(fs[q]) # Len(fs[p])

\* C15: a task is spawned only for a candidate that, in the pool of the
\* batching pass before it, had bytes remaining and shared its key with
\* another candidate, and whose bytes read so far are those of another
\* file of its size; a candidate whose size no other scanned file has is
\* handed to Stats::unique with nothing read and no file handle.
C15_Pruning ==
    /\ \A i \in 1..Len(tasks) :
          /\ tasks[i].pd.path \in Paths(last_call.possible)
          /\ LET x == AtLastCall(tasks[i].pd.path)
             IN /\ bytes_remaining(x) > 0
                /\ \E j \in 1..Len(last_call.possible) :
                      /\ last_call.possible[j].path # x.path
                      /\ KeyEq(key(last_call.possible[j]), key(x))
                /\ PrefixShared(x.path, x.bytes_read)
                /\ ~SizeUnique(x.path)
    /\ \A i \in 1..Len(uniques_log) :
          SizeUnique(uniques_log[i].path) =>
              /\ uniques_log[i].bytes_read = 0
              /\ uniques_log[i].file = None
    /\ (pc = "done" =>
           \A p \in Scanned : SizeUnique(p) => p \in Paths(uniques_log))

\* a file was dropped after its first chunk, one byte short of its end,
\* and another one was never opened
C15_Witness ==
    /\ pc = "done"
    /\ \E i \in 1..Len(uniques_log) :
          /\ uniques_log[i].bytes_read = 1
          /\ uniques_log[i].file_len = 2
    /\ \E i \in 1..Len(uniques_log) :
          /\ SizeUnique(uniques_log[i].path)
          /\ uniques_log[i].file = None

\* the first entry of the vector given to remove_duplicate_paths that has
\* the path p
FirstListed(p) == Orig[CHOOSE i \in 1..Len(Orig) :
                          /\ Orig[i].path = p
                          /\ \A j \in 1..(i - 1) : Orig[j].path # p]

\* C16: remove_duplicate_paths leaves one candidate for each path of its
\* input, the first entry of that path in input order whatever the sizes
\* of the later ones, in ascending order of path.
C16_PathDedup ==
    pc = "deduped" =>
        /\ Paths(poss_dupes) = Paths(Orig)
        /\ NoRepeat(poss_dupes)
        /\ \A i \in 1..Len(poss_dupes) :
               poss_dupes[i] = FirstListed(poss_dupes[i].path)
        /\ \A i \in 1..Len(poss_dupes), j \in 1..Len(poss_dupes) :
               i < j => poss_dupes[i].path < poss_dupes[j].path

\* a path was listed with one size and later with another, after a
\* greater path
C16_Witness ==
    /\ pc = "deduped"
    /\ Len(poss_dupes) = 2
    /\ \E i \in 1..Len(Orig), j \in 1..Len(Orig), k \in 1..Len(Orig) :
          /\ k < i /\ i < j
          /\ Orig[k].path > Orig[i].path
          /\ Orig[i].path = Orig[j].path
          /\ Orig[i].file_len # Orig[j].file_len

\* ascending by (len, digest_snapshot)
SortedByKey(s) ==
    \A i \in 1..Len(s), j \in 1..Len(s) : i < j => ~KeyLess(s[j], s[i])

\* candidates of equal key are next to one another
KeysContiguous(s) ==
    \A i \in 1..Len(s), j \in 1..Len(s), k \in 1..Len(s) :
        (i < k /\ k < j /\ KeyEq(key(s[i]), key(s[j])))
            => KeyEq(key(s[i]), key(s[k]))

\* C17: the pool given to each find_work call of run_impl, the global pool
\* at every outer iteration and the results of the round at every inner
\* one, is sorted ascending by (len, digest_snapshot) with equal keys next
\* to one another; the pool given to the inner call holds the candidates
\* the tasks of the round returned, each once.
C17_SortOrder ==
    /\ [](/\ SortedByKey(last_call.possible)
          /\ KeysContiguous(last_call.possible)
          /\ SortedByKey(poss_dupes) /\ KeysContiguous(poss_dupes)
          /\ SortedByKey(results) /\ KeysContiguous(results))
    /\ [][pc = "reading" /\ pc' = "inner" =>
             /\ last_call'.site = "inner"
             /\ Len(last_call'.possible) = Len(tasks)
             /\ Range(last_call'.possible) = Range(TaskPds)]_vars
    /\ [][pc = "outer" /\ pc' = "inner" =>
             /\ last_call'.site = "outer"
             /\ last_call'.possible = poss_dupes]_vars

\* the inner call was given three candidates that the round had left with
\* two digests
C17_Witness ==
    /\ pc = "inner"
    /\ last_call.site = "inner"
    /\ Len(last_call.possible) >= 3
    /\ last_call.possible[1].key.len = last_call.possible[3].key.len
    /\ KeyLess(last_call.possible[1], last_call.possible[3])

\* an item of the pool that find_work would put in work
WorkEligible(x) == HasPeer(x) /\ bytes_remaining(x) > 0

\* C18: a call leaves items in the pool only when work items have used up
\* its budget; what it leaves is the bottom of the pool, in place, and no
\* left item has the key of a consumed one; everything consumed below the
\* work item that used up the budget has that item's key; with budget 0
\* nothing is consumed; and with a budget of 1 or more a pool that holds
\* no item eligible for work is emptied.
C18_BudgetExhaustion ==
    Returned =>
        /\ poss_dupes = SubSeq(Orig, 1, Len(poss_dupes))
        /\ (poss_dupes # << >> => Len(w.work) >= Desired)
        /\ (Desired = 0 => Consumed = << >>)
        /\ (Desired >= 1 /\ Len(w.work) >= Desired =>
               \A i \in 1..Len(Consumed) :
                   OrigIndex(Consumed[i]) < OrigIndex(w.work[Desired])
                       => KeyEq(key(Consumed[i]), key(w.work[Desired])))
        /\ \A i \in 1..Len(poss_dupes), j \in 1..Len(Consumed) :
               ~KeyEq(key(poss_dupes[i]), key(Consumed[j]))
        /\ ((Desired >= 1 /\ \A i \in 1..Len(Orig) : ~WorkEligible(Orig[i]))
               => poss_dupes = << >>)

\* the budget ran out in a run of work items that was taken whole, and a
\* run of finished candidates and a lone item were left below it
C18_Witness ==
    /\ Returned
    /\ Desired >= 1
    /\ Len(w.work) > Desired
    /\ \E i \in 1..Len(poss_dupes) : InZeroRun(i)
    /\ \E i \in 1..Len(poss_dupes) : ~HasPeer(poss_dupes[i])

\* C19 as stated: no task is still running at a batching pass or when the
\* run has ended, however it ended.
C19_Original == pc # "reading" => InFlight = {}

\* C19, amended: the results of a round are sorted and batched again only
\* when every task of the round has completed, and no task exists at a
\* batching pass, inner or outer, or at the end of a run that ends without
\* a failure.  At the end of a run that a failed read ends, the tasks
\* spawned before the failed one have completed, and those spawned after
\* it may still be running.
C19_JoinBarrier ==
    /\ [](pc \in {"scan", "outer", "inner", "done", "failed"} => tasks = << >>)
    /\ [](pc = "panicked" =>
             \E i \in 1..Len(tasks) :
                 /\ tasks[i].state \in {"err", "panic"}
                 /\ \A j \in 1..(i - 1) : tasks[j].state = "ok")
    /\ [][pc = "reading" /\ pc' # "reading" =>
             \/ /\ pc' = "inner"
                /\ \A i \in 1..Len(tasks) : tasks[i].state = "ok"
                /\ tasks' = << >>
             \/ /\ pc' = "panicked"
                /\ tasks' = tasks]_vars
    /\ [][last_call' # last_call => InFlight = {}]_vars

\* the three tasks of a round have all completed, the join can go through
C19_Witness ==
    /\ pc = "reading"
    /\ Len(tasks) >= 3
    /\ \A i \in 1..Len(tasks) : tasks[i].state = "ok"
    /\ tasks[1].pd.bytes_read = 2

---------------------------------------------------------------------------
(* run_impl with the tasks of each round run to completion one after the   *)
(* other in spawn order: the yardstick for the runs in which they          *)
(* interleave.  A run that makes no progress (num_threads or read_size 0)  *)
(* is followed for as many rounds as a run that does can take.             *)

MaxRounds == MaxSize + 2
MaxBatches == MaxFiles + 1

IsPrefix(s, u) == Len(s) <= Len(u) /\ s = SubSeq(u, 1, Len(s))

\* what the run has handed to the statistics and the writer
Logs == [uniques |-> uniques_log, duplicates |-> duplicates_log,
         output |-> output]

RECURSIVE SequentialInner(_, _, _)
SequentialInner(wk, log, rounds) ==
    IF wk = EmptyWork THEN log
    ELSE LET emitted ==
                 [uniques |-> log.uniques \o wk.uniques,
                  duplicates |-> log.duplicates \o wk.duplicates,
                  output |-> log.output \o
                      [i \in 1..Len(wk.duplicates) |-> Line(wk.duplicates[i])]]
             read == [i \in 1..Len(wk.work) |->
                         read_poss_dupe(wk.work[i], options.read_size)]
         IN IF rounds = 0 THEN emitted
            ELSE CHOOSE l \in
                     {SequentialInner(Work(r), emitted, rounds - 1) :
                         r \in {find_work(sort_poss_dupes(read), USIZE_MAX)}} :
                     TRUE

RECURSIVE SequentialOuter(_, _, _)
SequentialOuter(pool, log, batches) ==
    IF pool = << >> \/ batches = 0 THEN log
    ELSE CHOOSE l \in
             {SequentialOuter(r.possible,
                              SequentialInner(Work(r), log, MaxRounds),
                              batches - 1) :
                 r \in {find_work(pool, options.num_threads)}} :
             TRUE

\* the pool after the scan: every file of the file system once
ScannedPool ==
    sort_poss_dupes(remove_duplicate_paths(
        stat_files([i \in 1..Len(fs) |-> Len(fs) + 1 - i])))

SequentialRun ==
    SequentialOuter(ScannedPool,
                    [uniques |-> << >>, duplicates |-> << >>, output |-> << >>],
                    MaxBatches)

\* C20: whatever the order in which the tasks of each round run and
\* complete, the candidates handed to Stats::unique and Stats::duplicate
\* (with their bytes_read) and the lines written are, in order, those of
\* the run in which the tasks run one after the other: so far as the run
\* has got, and all of them once it is done.
C20_InterleavingIndependence ==
    pc \in {"outer", "inner", "reading", "done", "panicked"} =>
        \E seq \in {SequentialRun} :
            /\ IsPrefix(uniques_log, seq.uniques)
            /\ IsPrefix(duplicates_log, seq.duplicates)
            /\ IsPrefix(output, seq.output)
            /\ (pc = "done" => Logs = seq)

\* a run of two rounds with four tasks each is done, with four lines
C20_Witness ==
    /\ pc = "done"
    /\ options.read_size = 1
    /\ Len(output) = 4
    /\ \A i \in 1..4 : output[i].size = 2

---------------------------------------------------------------------------
(* The candidates in the hands of the read tasks. *)

\* the bytes one chunk read takes from a candidate
Chunk(x) == min(options.read_size, x.file_len - x.bytes_read)

\* C21: in every state the tasks of the round hold candidates of distinct
\* paths, each with its own file handle; the step that spawns them hands
\* each work candidate of the sub-batch to one task, in order; and a task
\* that has completed has read its candidate once: one chunk past where
\* the batching pass before the round had it.
C21_OneReader ==
    /\ [](/\ NoRepeat(TaskPds)
          /\ \A i \in 1..Len(tasks) :
                LET x == AtLastCall(tasks[i].pd.path)
                    pd == tasks[i].pd
                IN /\ tasks[i].state = "spawned" => pd = x
                   /\ tasks[i].state = "ok" =>
                         /\ pd.bytes_read = x.bytes_read + Chunk(x)
                         /\ pd.file = Some(pd.bytes_read)
                         /\ pd.digest = SubSeq(fs[pd.path], 1, pd.bytes_read))
    /\ [][pc = "inner" /\ pc' = "reading" =>
             /\ Len(tasks') = Len(w.work)
             /\ \A i \in 1..Len(w.work) :
                    tasks'[i] = [pd |-> w.work[i], state |-> "spawned"]]_vars

\* three tasks of a second round, one of them done with its second chunk
\* and two yet to run
C21_Witness ==
    /\ pc = "reading"
    /\ Len(tasks) = 3
    /\ tasks[2].state = "ok" /\ tasks[2].pd.bytes_read = 2
    /\ tasks[1].state = "spawned" /\ tasks[1].pd.bytes_read = 1
    /\ tasks[3].state = "spawned"

\* every candidate of the run, wherever it is
Candidates == Classified \o poss_dupes \o InBatch

\* bytes_read of the candidate of path p
BytesReadOf(p) ==
    Candidates[CHOOSE i \in 1..Len(Candidates) : Candidates[i].path = p].bytes_read

\* C22: every candidate keeps the size it was scanned with, its bytes_read
\* is between 0 and that size and never decreases, bytes_remaining is 0
\* exactly when bytes_read is the size, and a task that completes has
\* advanced bytes_read by min(read_size, size - bytes_read).
C22_ReadProgress ==
    /\ [](\A i \in 1..Len(Candidates) :
             LET c == Candidates[i]
             IN /\ c.file_len = Len(fs[c.path])
                /\ c.key.len = c.file_len
                /\ c.bytes_read <= c.file_len
                /\ (bytes_remaining(c) = 0) <=> (c.bytes_read = c.file_len))
    /\ [][\A p \in Paths(Candidates) :
             /\ p \in Paths(Candidates')
             /\ BytesReadOf(p)' >= BytesReadOf(p)]_vars
    /\ [][\A i \in 1..Len(tasks) :
             (pc' = "reading" /\ tasks[i].state = "spawned"
                              /\ tasks'[i].state = "ok") =>
                 tasks'[i].pd.bytes_read =
                     tasks[i].pd.bytes_read +
                         min(options.read_size,
                             tasks[i].pd.file_len - tasks[i].pd.bytes_read)]_vars

\* a candidate read halfway is work again
C22_Witness ==
    /\ pc = "inner"
    /\ \E i \in 1..Len(w.work) :
          /\ w.work[i].bytes_read = 1
          /\ w.work[i].file_len = 2
          /\ bytes_remaining(w.work[i]) = 1

\* the first bytes_read bytes of the file of a candidate
PrefixRead(c) == SubSeq(fs[c.path], 1, c.bytes_read)

\* C23: in the pool given to each find_work call of run_impl, two
\* candidates have equal keys exactly when they have the same size, the
\* same bytes_read and the same first bytes_read bytes; candidates of
\* equal key have equal bytes_remaining.
C23_KeyEquality ==
    last_call.site \in {"outer", "inner"} =>
        \A i \in 1..Len(last_call.possible), j \in 1..Len(last_call.possible) :
            LET a == last_call.possible[i]
                b == last_call.possible[j]
            IN /\ KeyEq(key(a), key(b)) <=>
                      /\ a.file_len = b.file_len
                      /\ a.bytes_read = b.bytes_read
                      /\ PrefixRead(a) = PrefixRead(b)
               /\ KeyEq(key(a), key(b)) =>
                      bytes_remaining(a) = bytes_remaining(b)

\* the inner call was given two files that agree on their first byte and
\* one of their size that does not
C23_Witness ==
    /\ last_call.site = "inner"
    /\ \E i, j, k \in 1..Len(last_call.possible) :
          LET a == last_call.possible[i]
              b == last_call.possible[j]
              c == last_call.possible[k]
          IN /\ i # j
             /\ a.bytes_read = 1 /\ a.file_len = 2
             /\ KeyEq(key(a), key(b))
             /\ c.file_len = a.file_len
             /\ ~KeyEq(key(a), key(c))

\* C24: whatever the chunk size, no read task asks for a slice of the
\* scratch buffer longer than the buffer, so none panics at the slice.
C24_BufferBound ==
    \A i \in 1..Len(tasks) : tasks[i].state # "slice_panic"

\* the sub-batch in hand
SubBatch == w.work \o w.duplicates \o w.uniques

\* C25: the inner find_work call leaves nothing in `results`: the
\* candidates that the tasks of the round returned are, each once, the
\* work, duplicates and uniques of the next sub-batch; and the outer call
\* is made only with the sub-batch empty and no task or result pending.
C25_WorkNotDropped ==
    /\ [](results = << >>)
    /\ [](pc = "outer" => SubBatch = << >> /\ tasks = << >>)
    /\ [][pc = "reading" /\ pc' = "inner" =>
             /\ Len(SubBatch') = Len(tasks)
             /\ Range(SubBatch') = Range(TaskPds)]_vars
    /\ [][last_call'.site = "outer" /\ last_call' # last_call =>
             /\ pc = "outer"
             /\ SubBatch = << >>
             /\ tasks = << >>]_vars

\* on a limit of one, a round of four files came back with two digests and
\* all four are work again
C25_Witness ==
    /\ pc = "inner"
    /\ last_call.site = "inner"
    /\ options.num_threads = 1
    /\ Len(w.work) = 4
    /\ ~KeyEq(key(w.work[1]), key(w.work[4]))
    /\ results = << >>

\* the paths of the lines that a step adds to the writer
Added == {output'[i].path : i \in (Len(output) + 1)..Len(output')}

\* C26: the lines of candidates of the same size and content are next to
\* one another in the writer, with no line of another size or content
\* between them, and the step that writes the line of one of them writes
\* the lines of all of them.
C26_GroupsContiguous ==
    /\ [](\A i \in 1..Len(output), j \in 1..Len(output), k \in 1..Len(output) :
             (i < k /\ k < j /\ SameContent(output[i].path, output[j].path))
                 => SameContent(output[i].path, output[k].path))
    /\ [][Len(output') >= Len(output) /\
          \A p \in Added : \A q \in Scanned :
              SameContent(p, q) => q \in Added]_vars

\* a run ended with the lines of two pairs of duplicates
C26_Witness ==
    /\ pc = "done"
    /\ Len(output) = 4
    /\ SameContent(output[1].path, output[2].path)
    /\ SameContent(output[3].path, output[4].path)
    /\ ~SameContent(output[2].path, output[3].path)
    /\ output[2].size = output[3].size

\* C27: for every read_size the options carry, a task that completes its
\* read has strictly increased bytes_read of its candidate and so
\* strictly decreased its bytes_remaining.
C27_EveryReadProgresses ==
    /\ [][\A i \in 1..Len(tasks) :
             (pc' = "reading" /\ tasks[i].state = "spawned"
                              /\ tasks'[i].state = "ok") =>
                 /\ tasks'[i].pd.bytes_read > tasks[i].pd.bytes_read
                 /\ bytes_remaining(tasks'[i].pd) <
                        bytes_remaining(tasks[i].pd)]_vars

=============================================================================
